---- MODULE Spec2Model ----
(***************************************************************************)
(* A model of the demonstration tooling under example/:                    *)
(*   producer.py      the rule client (RuleManager), the event publisher   *)
(*                    (MessageProducer) and the provisioning script main   *)
(*   consumer.py      MessageConsumer.consume                              *)
(*   generate_data.py the dataset generator                                *)
(*   load_redis.py    the key-value loader                                 *)
(*   load_mongodb.py  the document loader                                  *)
(* The rule API server, the broker and the stores are the environment.     *)
(***************************************************************************)
EXTENDS Integers, Sequences, FiniteSets, TLC

\* ------------------------------------------------------------- bounds
MaxPre == 2       \* rules of one kind the server holds before the run
MaxFixt == 2      \* rules in one fixture file
MaxMsgs == 2      \* envelopes in messages.json
MaxConsumed == 2  \* messages the consumer prints
MaxSends == 3     \* send_envelope calls on one list of envelopes
MaxCount == 2     \* count of generate_messages
MaxKeys == 2      \* keys of redis_data.json
MaxLoads == 2     \* runs of load_redis_data, of load_mongodb_data
MaxDocs == 2      \* user records of mongodb_data.json
MaxCalls == 3     \* calls of update_deduplication_config on one RuleManager

\* ------------------------------------------------------------- values
Names == {"a", "b"}
Kinds == {"filtering", "enrichment"}
EmptyObj == [k \in {} |-> 0]          \* the JSON object {}
None == <<>>                          \* an absent optional value
Some(v) == <<v>>

Min(S) == CHOOSE m \in S : \A n \in S : m <= n

SeqsUpTo(S, n) == UNION {[1..k -> S] : k \in 0..n}

\* dict.get(key, default)
Get(d, key, default) == IF key \in DOMAIN d THEN d[key] ELSE default

\* ------------------------------------------------------------ HTTP
\* A response is its status; 0 stands for no response at all (a transport
\* error raised by requests.get/post/put/delete as a RequestException).
NoResponse == 0
StatusOk == 200
StatusNotModified == 304
StatusServerError == 500
Statuses == {StatusOk, StatusNotModified, StatusServerError}
Outcomes == Statuses \cup {NoResponse}

\* requests.Response.raise_for_status: HTTPError for 4xx and 5xx only.
RaiseForStatus(status) == status >= 400 /\ status < 600

\* The call raises a RequestException: no response, or raise_for_status.
Raises(status) == status = NoResponse \/ RaiseForStatus(status)

VARIABLES
    \* the rule API server
    srvRules,          \* [Kinds -> Seq([id, body])], in the order GET lists them
    srvDedup,          \* the singleton deduplication configuration
    nextId,            \* the id the server assigns to the next created rule
    \* load_fixtures
    filtering_rules, enrichment_rules, dedup_config,
    messages,          \* the loaded envelopes (send_envelope stamps them in place)
    \* main
    pc,                \* "filtering" | "enrichment" | "dedup" | "sleep" | "publish"
                       \*   | "close" | "done" | "raised" | "idle"
    step,              \* position inside the operation at pc
    idx,               \* index of the current loop element
    existing,          \* result of get_*_rule_by_name in the current create
    rule_ids,          \* ids returned by create_filtering_rule
    error,             \* the exception that ended main, or None
    \* observation of the run
    srvBefore,         \* srvRules when the run started
    messages_file,     \* messages as load_fixtures read them
    generated,         \* generated/messages.json exists
    healthy,           \* the server and the network answer every request 2xx
    previous,          \* how the run before this one ended, or None
    call,              \* the current (or last) rule client operation
    created,           \* the create calls that returned, in order
    trace,             \* the operations of main that returned, in order
    \* MessageProducer / broker
    sent,              \* records handed to producer.send, in order
    flushed,           \* number of producer.flush calls that returned
    closed,            \* MessageProducer.close was called
    \* MessageConsumer.consume
    cpc,               \* "start" | "iterating" | "except" | "finally" | "returned"
                       \*   | "raised" | "idle"
    cpending,          \* the exception consume is unwinding with, or None
    cinterrupted,      \* a KeyboardInterrupt reached consume inside its try
    consumed,          \* messages printed
    cclosed,           \* KafkaConsumer.close was called
    \* generate_data.py main
    gpc,               \* "start" | "messages" | "mongodb" | "redis" | "idle"
    gmessages,         \* messages, the list generate_messages returned
    mongodb_data,      \* the bundle generate_mongodb_data returned, or None
    count,             \* the count generate_messages was called with
    redis_data,        \* the key-value bundle main built, or None
    \* load_redis.py and the key-value store
    redis_file,        \* generated/redis_data.json: None, or its (key, value) pairs
    store,             \* the store: key -> stored string, or Absent
    store0,            \* the store before the first load
    lpc,               \* "start" | "loading" | "done" | "raised" | "idle"
    li,                \* index of the pair the loop is at
    sets,              \* keys of the r.set calls of the current run
    loads,             \* runs of load_redis_data so far
    after1,            \* the store when the first run returned, or None
    printed,           \* what the current run of load_redis_data printed
    \* load_mongodb.py and the document store
    mongodb_file,      \* generated/mongodb_data.json: None, or its bundle
    coll,              \* [user_profiles, products]: the documents of each
    coll0,             \* the collections before the first load
    mpc,               \* "start" | "users" | "products" | "done" | "failed" | "idle"
    mi,                \* index of the record the loop is at
    writes,            \* the replace_one calls of the current run that returned
    mloads,            \* runs of load_mongodb_data that returned without error
    mafter1,           \* the collections when the first such run returned
    mprinted           \* what the current run of load_mongodb_data printed

srvVars == <<srvRules, srvDedup, nextId>>
fixtVars == <<filtering_rules, enrichment_rules, dedup_config, srvBefore,
              messages_file, generated, healthy, previous>>
prodVars == <<sent, flushed, closed>>
mainVars == <<srvVars, fixtVars, messages, pc, step, idx, existing, rule_ids,
              error, call, created, trace, prodVars>>
consVars == <<cpc, cpending, cinterrupted, consumed, cclosed>>
genVars == <<gpc, gmessages, mongodb_data, count, redis_data>>
loadVars == <<redis_file, store, store0, lpc, li, sets, loads, after1, printed>>
mongoVars == <<mongodb_file, coll, coll0, mpc, mi, writes, mloads, mafter1,
               mprinted>>

\* ------------------------------------------------------------ fixtures
\* fixtures/filtering.json: the i-th rule of the file has its own expression.
FilteringFixture(names) ==
    [i \in 1..Len(names) |->
        [name |-> names[i], expression |-> <<"expr", i>>, priority |-> i]]

\* fixtures/enrichment.json: the first rule gives every key, the others only
\* the required ones.
EnrichmentFixture(names) ==
    [i \in 1..Len(names) |->
        IF i = 1
        THEN [name |-> names[i], field_to_enrich |-> <<"field", i>>,
              source_type |-> "mongodb", source_config |-> <<"cfg", i>>,
              transformations |-> <<"upper">>, cache_ttl_seconds |-> 60,
              error_handling |-> "fail", priority |-> 5, enabled |-> FALSE]
        ELSE [name |-> names[i], field_to_enrich |-> <<"field", i>>,
              source_type |-> "redis", source_config |-> <<"cfg", i>>]]

\* fixtures/deduplication.json, with every key or with some missing.
FullDedup ==
    [hash_algorithm |-> "sha256", ttl_seconds |-> "3600",
     on_redis_error |-> "allow", fields_to_hash |-> <<"id">>]
DedupFixtures == {FullDedup, [on_redis_error |-> "deny"]}

\* A generated envelope (generate_payment_message) has no timestamp and no
\* metadata; one from fixtures/messages.json may carry either. The payload's
\* amount, currency, status and created_at are left out.
MessageIds ==
    <<"payment-order-001", "payment-order-002", "payment-order-003",
      "payment-order-004">>
Envelope(i) ==
    [id |-> MessageIds[i], source |-> "payment-service",
     payload |-> [order_id |-> <<"order", i>>, user_id |-> <<"user", i % 2>>]]

Times == {"t1", "t2"}

MessageFile(n) ==
    [i \in 1..n |->
        IF i % 3 = 1 THEN Envelope(i)
        ELSE IF i % 3 = 2 THEN Envelope(i) @@ ("timestamp" :> "t0")
        ELSE Envelope(i) @@ ("metadata" :> [trace |-> "x"])]

\* A rule the server held before the run: created by an earlier client.
OldRule(kind, i, name) ==
    [id |-> i,
     body |-> IF kind = "filtering"
              THEN [name |-> name, expression |-> <<"expr", 0>>, priority |-> 0,
                    enabled |-> TRUE]
              ELSE [name |-> name, field_to_enrich |-> <<"field", 0>>,
                    source_type |-> "redis", source_config |-> <<"cfg", 0>>,
                    transformations |-> <<>>, cache_ttl_seconds |-> 0,
                    error_handling |-> "skip_rule", priority |-> 10,
                    enabled |-> TRUE]]

OldRules(kind, names) == [i \in 1..Len(names) |-> OldRule(kind, i, names[i])]

Fixtures(kind) == IF kind = "filtering" THEN filtering_rules ELSE enrichment_rules

\* ------------------------------------------------------- RuleManager
\* list_*_rules without its try/except: the RequestException propagates.
ListRulesUncaught(resp) ==
    [raised |-> Raises(resp.status),
     rules |-> IF resp.isList THEN resp.items ELSE <<>>]

\* list_filtering_rules / list_enrichment_rules on a response
\* [status, isList, items]: the RequestException is caught and [] returned, as
\* it is for a body that is no list.
ListRules(resp) ==
    [raised |-> FALSE,
     rules |-> IF Raises(resp.status) THEN <<>>
               ELSE IF resp.isList THEN resp.items
               ELSE <<>>]

\* get_*_rule_by_name that never finds a rule.
GetRuleByNameNone(rules, name) == None

\* get_*_rule_by_name without the comparison of names: the first rule listed.
GetRuleByNameAny(rules, name) == IF rules = <<>> THEN None ELSE Some(rules[1])

\* get_filtering_rule_by_name / get_enrichment_rule_by_name: the first rule of
\* the list with that name, or None.
GetRuleByName(rules, name) ==
    LET hits == {i \in 1..Len(rules) : rules[i].body.name = name}
    IN IF hits = {} THEN None ELSE Some(rules[Min(hits)])

\* The body of a create_filtering_rule called without the rule's priority.
FilteringPayloadDefaultPriority(rule) ==
    [name |-> rule.name, expression |-> rule.expression, priority |-> 10,
     enabled |-> TRUE]

\* The body create_filtering_rule posts.
FilteringPayload(rule) ==
    [name |-> rule.name, expression |-> rule.expression,
     priority |-> rule.priority, enabled |-> TRUE]

\* The body create_enrichment_rule posts.
EnrichmentPayload(rule) ==
    [name |-> rule.name,
     field_to_enrich |-> rule.field_to_enrich,
     source_type |-> rule.source_type,
     source_config |-> rule.source_config,
     transformations |-> Get(rule, "transformations", <<>>),
     cache_ttl_seconds |-> Get(rule, "cache_ttl_seconds", 0),
     error_handling |-> Get(rule, "error_handling", "skip_rule"),
     priority |-> Get(rule, "priority", 10),
     enabled |-> Get(rule, "enabled", TRUE)]

Payload(kind, rule) ==
    IF kind = "filtering" THEN FilteringPayload(rule) ELSE EnrichmentPayload(rule)

\* ------------------------------------------------------- the server
\* What GET /api/v1/rules/<kind> can answer: the list with 200, or a body that
\* is no list (200 with an object, an error status), or nothing.
GetResponses(kind) ==
    {[status |-> StatusOk, isList |-> TRUE, items |-> srvRules[kind]]}
    \cup IF healthy THEN {}
         ELSE {[status |-> s, isList |-> FALSE, items |-> <<>>] : s \in Outcomes}

\* What a DELETE, POST or PUT can be answered: 2xx while the server and the
\* network are healthy, anything otherwise.
Answers == IF healthy THEN {StatusOk} ELSE Outcomes

\* DELETE /api/v1/rules/<kind>/<id>: applied exactly when answered 2xx.
ServerDelete(rules, id, status) ==
    IF status = StatusOk THEN SelectSeq(rules, LAMBDA r : r.id # id) ELSE rules

\* POST /api/v1/rules/<kind>: applied exactly when answered 2xx; the new rule
\* gets a fresh id and goes to the end of the list.
ServerPost(rules, id, body, status) ==
    IF status = StatusOk THEN Append(rules, [id |-> id, body |-> body]) ELSE rules

CountNamed(rules, name) ==
    Cardinality({i \in 1..Len(rules) : rules[i].body.name = name})

\* The body update_deduplication_config puts: a missing key is sent as null.
Null == "null"

\* A body of the keys the config has.
DedupPayloadPresentKeys(config) ==
    [k \in DOMAIN config \cap {"hash_algorithm", "ttl_seconds", "on_redis_error",
                               "fields_to_hash"} |-> config[k]]

DedupPayload(config) ==
    [hash_algorithm |-> Get(config, "hash_algorithm", Null),
     ttl_seconds |-> Get(config, "ttl_seconds", Null),
     on_redis_error |-> Get(config, "on_redis_error", Null),
     fields_to_hash |-> Get(config, "fields_to_hash", <<>>)]

\* PUT /api/v1/config/deduplication: applied exactly when answered 2xx.
ServerPut(config, body, status) == IF status = StatusOk THEN body ELSE config

OldDedup ==
    [hash_algorithm |-> "md5", ttl_seconds |-> "60", on_redis_error |-> "allow",
     fields_to_hash |-> <<"payload">>]

\* ------------------------------------------------------------- main
Request(method, status, isList, target) ==
    [method |-> method, status |-> status, isList |-> isList, target |-> target]

\* Every request of the call was answered 2xx, the GET with a list.
Clean(reqs) ==
    \A i \in 1..Len(reqs) :
        /\ reqs[i].status = StatusOk
        /\ reqs[i].method = "GET" => reqs[i].isList

Raised(exc) == Some([exc |-> exc, at |-> pc, step |-> step, idx |-> idx])

NoCall ==
    [op |-> "none", kind |-> "none", name |-> "none", reqs |-> <<>>,
     before |-> srvRules, returned |-> FALSE]

\* main without its enrichment loop.
AfterLoopSkipEnrichment(phase) ==
    IF phase = "start" /\ filtering_rules # <<>> THEN "filtering" ELSE "dedup"

\* Where main goes when the loop of `phase` is over: the filtering loop, the
\* enrichment loop under `if enrichment_rules:`, then the deduplication config.
AfterLoop(phase) ==
    IF phase = "start"
    THEN IF filtering_rules # <<>> THEN "filtering"
         ELSE IF enrichment_rules # <<>> THEN "enrichment" ELSE "dedup"
    ELSE IF phase = "filtering"
    THEN IF enrichment_rules # <<>> THEN "enrichment" ELSE "dedup"
    ELSE "dedup"

\* A RuleManager whose methods all build the filtering URLs.
EndpointFiltering(kind) == "filtering"

\* The rule list a create_<kind>_rule addresses: /api/v1/rules/<kind>.
Endpoint(kind) == kind

\* create_*_rule, first request: get_*_rule_by_name over GET /rules/<kind>.
CreateLookup(kind) ==
    /\ pc = kind /\ step = "lookup"
    /\ \E resp \in GetResponses(Endpoint(kind)) :
          LET rule == Fixtures(kind)[idx]
              listed == ListRules(resp)
              found == GetRuleByName(listed.rules, rule.name)
          IN /\ call' = [op |-> "create", kind |-> kind, name |-> rule.name,
                         reqs |-> <<Request("GET", resp.status, resp.isList, 0)>>,
                         before |-> srvRules, returned |-> FALSE]
             /\ IF listed.raised
                THEN /\ pc' = "raised"
                     /\ error' = Raised("RequestException")
                     /\ UNCHANGED <<existing, step>>
                ELSE /\ existing' = found
                     /\ step' = IF found # None THEN "delete" ELSE "post"
                     /\ UNCHANGED <<pc, error>>
    /\ UNCHANGED <<srvVars, fixtVars, messages, idx, rule_ids, created, trace,
                   prodVars, consVars, genVars, loadVars,
                   mongoVars>>

\* create_*_rule, `if existing:` delete_*_rule(existing["id"]).
CreateDelete(kind) ==
    /\ pc = kind /\ step = "delete"
    /\ \E status \in Answers :
          /\ srvRules' = [srvRules EXCEPT
                            ![Endpoint(kind)] =
                                ServerDelete(@, existing[1].id, status)]
          /\ call' = [call EXCEPT
                        !.reqs = Append(@, Request("DELETE", status, FALSE,
                                                   existing[1].id))]
          /\ IF Raises(status)
             THEN /\ pc' = "raised"
                  /\ error' = Raised("RequestException")
                  /\ UNCHANGED step
             ELSE /\ step' = "post"
                  /\ UNCHANGED <<pc, error>>
    /\ UNCHANGED <<srvDedup, nextId, fixtVars, messages, idx, existing, rule_ids,
                   created, trace, prodVars, consVars, genVars, loadVars,
                   mongoVars>>

\* create_*_rule, the POST and the return of response.json()["id"]. A response
\* that is not 2xx carries no "id".
CreatePost(kind) ==
    /\ pc = kind /\ step = "post"
    /\ \E status \in Answers :
          LET rule == Fixtures(kind)[idx]
              body == Payload(kind, rule)
              last == idx = Len(Fixtures(kind))
          IN /\ srvRules' = [srvRules EXCEPT
                               ![Endpoint(kind)] =
                                   ServerPost(@, nextId, body, status)]
             /\ nextId' = IF status = StatusOk THEN nextId + 1 ELSE nextId
             /\ call' = [call EXCEPT
                           !.reqs = Append(@, Request("POST", status, FALSE, 0)),
                           !.returned = status = StatusOk]
             /\ IF Raises(status)
                THEN /\ pc' = "raised"
                     /\ error' = Raised("RequestException")
                     /\ UNCHANGED <<step, idx, rule_ids, created, trace>>
                ELSE IF status # StatusOk
                THEN /\ pc' = "raised"
                     /\ error' = Raised("KeyError")
                     /\ UNCHANGED <<step, idx, rule_ids, created, trace>>
                ELSE /\ created' = Append(created,
                            [kind |-> kind, index |-> idx, id |-> nextId,
                             pre |-> CountNamed(call.before[kind], rule.name),
                             clean |-> Clean(call'.reqs)])
                     /\ trace' = Append(trace, kind)
                     /\ rule_ids' = IF kind = "filtering"
                                    THEN Append(rule_ids, nextId) ELSE rule_ids
                     /\ pc' = IF last THEN AfterLoop(kind) ELSE kind
                     /\ idx' = IF last THEN 1 ELSE idx + 1
                     /\ step' = "lookup"
                     /\ UNCHANGED error
    /\ UNCHANGED <<srvDedup, fixtVars, messages, existing, prodVars, consVars, genVars, loadVars,
                   mongoVars>>

create_filtering_rule ==
    \/ CreateLookup("filtering")
    \/ CreateDelete("filtering")
    \/ CreatePost("filtering")

create_enrichment_rule ==
    \/ CreateLookup("enrichment")
    \/ CreateDelete("enrichment")
    \/ CreatePost("enrichment")

\* update_deduplication_config, then main's print of dedup_config['hash_algorithm']
\* and dedup_config['ttl_seconds'].
PutDedup(config, status) ==
    /\ srvDedup' = ServerPut(srvDedup, DedupPayload(config), status)
    /\ call' = [op |-> "update_deduplication_config", kind |-> "none",
                name |-> "none",
                reqs |-> <<Request("PUT", status, FALSE, DedupPayload(config))>>,
                before |-> srvRules, returned |-> ~Raises(status)]

update_deduplication_config ==
    /\ pc = "dedup"
    /\ \E status \in Answers :
          /\ PutDedup(dedup_config, status)
          /\ IF Raises(status)
             THEN pc' = "raised" /\ error' = Raised("RequestException")
                  /\ UNCHANGED trace
             ELSE IF {"hash_algorithm", "ttl_seconds"} \subseteq DOMAIN dedup_config
             THEN pc' = "sleep" /\ trace' = Append(trace, "dedup")
                  /\ UNCHANGED error
             ELSE pc' = "raised" /\ error' = Raised("KeyError")
                  /\ trace' = Append(trace, "dedup")
    /\ UNCHANGED <<srvRules, nextId, fixtVars, messages, step, idx, existing,
                   rule_ids, created, prodVars, consVars, genVars, loadVars,
                   mongoVars>>

\* time.sleep(5): the propagation wait.
Sleep ==
    /\ pc = "sleep"
    /\ pc' = IF messages = <<>> THEN "close" ELSE "publish"
    /\ step' = "send"
    /\ idx' = 1
    /\ trace' = Append(trace, "sleep")
    /\ UNCHANGED <<srvVars, fixtVars, messages, existing, rule_ids, error, call,
                   created, prodVars, consVars, genVars, loadVars,
                   mongoVars>>

\* --------------------------------------------------- MessageProducer
\* key_serializer: k.encode("utf-8") if k else None.
KeySerializer(k) == IF k = "" THEN None ELSE Some(k)

\* send_envelope that stamps unconditionally.
StampAlways(envelope, now) ==
    [k \in DOMAIN envelope \cup {"timestamp", "metadata"} |->
        IF k = "timestamp" THEN now
        ELSE IF k = "metadata" THEN EmptyObj
        ELSE envelope[k]]

\* send_envelope, lines 144-147: the envelope is stamped in place.
Stamp(envelope, now) ==
    LET withTime == IF "timestamp" \notin DOMAIN envelope
                    THEN envelope @@ ("timestamp" :> now) ELSE envelope
    IN IF "metadata" \notin DOMAIN withTime
       THEN withTime @@ ("metadata" :> EmptyObj) ELSE withTime

\* producer.send keyed by the envelope's source.
RecordKeyedBySource(envelope) ==
    [key |-> Some(envelope["source"]), value |-> envelope]

\* What producer.send is handed: key=envelope["id"], value=envelope.
Record(envelope) == [key |-> KeySerializer(envelope["id"]), value |-> envelope]

\* main's loop, send_envelope lines 144-148 for messages[idx]; producer.send
\* may raise.
SendEnvelope ==
    /\ pc = "publish" /\ step = "send"
    /\ \E now \in Times, ok \in BOOLEAN :
          LET envelope == Stamp(messages[idx], now)
          IN /\ messages' = [messages EXCEPT ![idx] = envelope]
             /\ IF ok
                THEN /\ sent' = Append(sent, Record(envelope))
                     /\ step' = "flush"
                     /\ UNCHANGED <<pc, error>>
                ELSE /\ pc' = "raised"
                     /\ error' = Raised("KafkaError")
                     /\ UNCHANGED <<sent, step>>
    /\ UNCHANGED <<srvVars, fixtVars, idx, existing, rule_ids, call, created,
                   trace, flushed, closed, consVars, genVars, loadVars,
                   mongoVars>>

\* A send_envelope that hands the envelope over again when flush fails.
FlushResend ==
    /\ pc = "publish" /\ step = "flush"
    /\ \E ok \in BOOLEAN :
          IF ok
          THEN /\ flushed' = flushed + 1
               /\ trace' = Append(trace, "send_envelope")
               /\ idx' = IF idx = Len(messages) THEN idx ELSE idx + 1
               /\ pc' = IF idx = Len(messages) THEN "close" ELSE "publish"
          ELSE UNCHANGED <<flushed, idx, trace, pc>>
    /\ step' = "send"
    /\ UNCHANGED <<srvVars, fixtVars, messages, existing, rule_ids, call, created,
                   error, sent, closed, consVars, genVars, loadVars, mongoVars>>

\* send_envelope, line 149: producer.flush() blocks until the record handed to
\* send has completed, then main prints and takes the next message.
Flush ==
    /\ pc = "publish" /\ step = "flush"
    /\ \E ok \in BOOLEAN :
          IF ok
          THEN /\ flushed' = flushed + 1
               /\ trace' = Append(trace, "send_envelope")
               /\ step' = "send"
               /\ idx' = IF idx = Len(messages) THEN idx ELSE idx + 1
               /\ pc' = IF idx = Len(messages) THEN "close" ELSE "publish"
               /\ UNCHANGED error
          ELSE /\ pc' = "raised"
               /\ error' = Raised("KafkaError")
               /\ UNCHANGED <<flushed, step, idx, trace>>
    /\ UNCHANGED <<srvVars, fixtVars, messages, existing, rule_ids, call, created,
                   sent, closed, consVars, genVars, loadVars,
                   mongoVars>>

\* message_producer.close() at the end of main.
Close ==
    /\ pc = "close"
    /\ closed' = TRUE
    /\ pc' = "done"
    /\ UNCHANGED <<srvVars, fixtVars, messages, step, idx, existing, rule_ids,
                   error, call, created, trace, sent, flushed, consVars, genVars, loadVars,
                   mongoVars>>

\* A KeyboardInterrupt delivered to main: nothing in main catches it.
Interrupt ==
    /\ pc \notin {"done", "raised", "idle"}
    /\ pc' = "raised"
    /\ error' = Raised("KeyboardInterrupt")
    /\ UNCHANGED <<srvVars, fixtVars, messages, step, idx, existing, rule_ids,
                   call, created, trace, prodVars, consVars, genVars, loadVars,
                   mongoVars>>

main ==
    \/ create_filtering_rule
    \/ create_enrichment_rule
    \/ update_deduplication_config
    \/ Sleep
    \/ SendEnvelope
    \/ Flush
    \/ Close
    \/ Interrupt

\* --------------------------------------------------- MessageConsumer
\* consume, lines 28-31: the prints, then into the try.
ConsumeStart ==
    /\ cpc = "start"
    /\ cpc' = "iterating"
    /\ UNCHANGED <<cpending, cinterrupted, consumed, cclosed, mainVars, genVars, loadVars,
                   mongoVars>>

\* One turn of `for message in self.consumer`: _print_message(message.value),
\* which raises KeyError on an envelope without id, source or payload.
ConsumeMessage ==
    /\ cpc = "iterating" /\ consumed < MaxConsumed
    /\ \E wellFormed \in BOOLEAN :
          IF wellFormed
          THEN consumed' = consumed + 1 /\ UNCHANGED <<cpc, cpending>>
          ELSE cpc' = "finally" /\ cpending' = Some("KeyError")
               /\ UNCHANGED consumed
    /\ UNCHANGED <<cinterrupted, cclosed, mainVars, genVars, loadVars,
                   mongoVars>>

\* A KeyboardInterrupt delivered to the consumer process: before the try it
\* leaves consume at once; in the loop `except KeyboardInterrupt` catches it;
\* in the handler it replaces the handled exception and unwinds through finally.
ConsumeInterrupt ==
    /\ cpc \in {"start", "iterating", "except"}
    /\ IF cpc = "start"
       THEN cpc' = "raised" /\ cpending' = Some("KeyboardInterrupt")
            /\ UNCHANGED cinterrupted
       ELSE IF cpc = "iterating"
       THEN cpc' = "except" /\ cinterrupted' = TRUE /\ UNCHANGED cpending
       ELSE cpc' = "finally" /\ cpending' = Some("KeyboardInterrupt")
            /\ UNCHANGED cinterrupted
    /\ UNCHANGED <<consumed, cclosed, mainVars, genVars, loadVars,
                   mongoVars>>

\* consume, line 35: print("Stopping consumer...").
ConsumeExcept ==
    /\ cpc = "except"
    /\ cpc' = "finally"
    /\ UNCHANGED <<cpending, cinterrupted, consumed, cclosed, mainVars, genVars, loadVars,
                   mongoVars>>

\* consume, lines 36-37: finally self.consumer.close(), then return or re-raise.
ConsumeFinally ==
    /\ cpc = "finally"
    /\ cclosed' = TRUE
    /\ cpc' = IF cpending = None THEN "returned" ELSE "raised"
    /\ UNCHANGED <<cpending, cinterrupted, consumed, mainVars, genVars, loadVars,
                   mongoVars>>

consume ==
    \/ ConsumeStart
    \/ ConsumeMessage
    \/ ConsumeInterrupt
    \/ ConsumeExcept
    \/ ConsumeFinally

\* ------------------------------------------------------ initial states
ConsumerIdle ==
    /\ cpc = "idle" /\ cpending = None /\ cinterrupted = FALSE
    /\ consumed = 0 /\ cclosed = FALSE

ConsumerInit ==
    /\ cpc = "start" /\ cpending = None /\ cinterrupted = FALSE
    /\ consumed = 0 /\ cclosed = FALSE

InitRun ==
    /\ srvDedup = OldDedup
    /\ nextId = MaxPre + 1
    /\ srvBefore = srvRules
    /\ messages = messages_file
    /\ healthy = FALSE
    /\ previous = None
    /\ pc = AfterLoop("start")
    /\ step = "lookup"
    /\ idx = 1
    /\ existing = None
    /\ rule_ids = <<>>
    /\ error = None
    /\ call = NoCall
    /\ created = <<>>
    /\ trace = <<>>
    /\ sent = <<>>
    /\ flushed = 0
    /\ closed = FALSE

\* Any rules on the server, any rule fixtures (the names are interchangeable, so
\* the first filtering fixture is named "a"), an empty messages.json.
InitProvision ==
    /\ \E pre \in SeqsUpTo(Names, MaxPre) :
          srvRules = [filtering |-> OldRules("filtering", pre),
                      enrichment |-> OldRules("enrichment", pre)]
    /\ \E ff \in SeqsUpTo(Names, MaxFixt), fe \in SeqsUpTo(Names, MaxFixt) :
          /\ IF ff = <<>> THEN TRUE ELSE ff[1] = "a"
          /\ filtering_rules = FilteringFixture(ff)
          /\ enrichment_rules = EnrichmentFixture(fe)
    /\ dedup_config = FullDedup
    /\ messages_file = <<>>
    /\ generated = TRUE
    /\ InitRun

\* One rule of each kind at most, a messages.json of up to MaxMsgs envelopes.
InitPublish ==
    /\ \E pre \in SeqsUpTo({"a"}, 1) :
          srvRules = [filtering |-> OldRules("filtering", pre),
                      enrichment |-> OldRules("enrichment", pre)]
    /\ \E ff \in SeqsUpTo({"a"}, 1), fe \in SeqsUpTo({"a"}, 1) :
          /\ filtering_rules = FilteringFixture(ff)
          /\ enrichment_rules = EnrichmentFixture(fe)
    /\ dedup_config \in DedupFixtures
    /\ \E n \in 1..MaxMsgs : messages_file = MessageFile(n)
    /\ generated \in BOOLEAN
    /\ InitRun

GeneratorIdle ==
    /\ gpc = "idle" /\ gmessages = <<>> /\ mongodb_data = None
    /\ count = 0 /\ redis_data = None

LoaderIdle ==
    /\ redis_file = None /\ store = <<>> /\ store0 = <<>> /\ lpc = "idle"
    /\ li = 1 /\ sets = <<>> /\ loads = 0 /\ after1 = None /\ printed = <<>>

MongoIdle ==
    /\ mongodb_file = None /\ coll = <<>> /\ coll0 = <<>> /\ mpc = "idle"
    /\ mi = 1 /\ writes = <<>> /\ mloads = 0 /\ mafter1 = None
    /\ mprinted = <<>>

Init ==
    /\ InitProvision \/ InitPublish
    /\ ConsumerIdle /\ GeneratorIdle /\ LoaderIdle /\ MongoIdle

vars == <<mainVars, consVars, genVars, loadVars, mongoVars>>

Next == main

\* producer.py run as a script.
Spec == Init /\ [][Next]_vars

\* producer.py and consumer.py run side by side.
InitCancel ==
    InitPublish /\ ConsumerInit /\ GeneratorIdle /\ LoaderIdle /\ MongoIdle

NextCancel == main \/ consume

SpecCancel == InitCancel /\ [][NextCancel]_vars

\* ------------------------------------- send_envelope called on its own
MainIdle ==
    /\ srvRules = [filtering |-> <<>>, enrichment |-> <<>>]
    /\ srvDedup = OldDedup
    /\ nextId = MaxPre + 1
    /\ srvBefore = srvRules
    /\ filtering_rules = <<>>
    /\ enrichment_rules = <<>>
    /\ dedup_config = FullDedup
    /\ generated = TRUE
    /\ healthy = FALSE
    /\ previous = None
    /\ pc = "idle"
    /\ step = "send"
    /\ idx = 1
    /\ existing = None
    /\ rule_ids = <<>>
    /\ error = None
    /\ call = NoCall
    /\ created = <<>>
    /\ trace = <<>>
    /\ sent = <<>>
    /\ flushed = 0
    /\ closed = FALSE

\* The envelope of position i with or without a timestamp and a metadata.
EnvelopeVariants(i) ==
    { Envelope(i),
      Envelope(i) @@ ("timestamp" :> "t0"),
      Envelope(i) @@ ("metadata" :> [trace |-> "x"]),
      Envelope(i) @@ ("timestamp" :> "t0") @@ ("metadata" :> [trace |-> "x"]) }

InitPub ==
    /\ \E n \in 1..MaxMsgs :
          \E file \in [1..n -> UNION {EnvelopeVariants(i) : i \in 1..n}] :
              /\ \A i \in 1..n : file[i] \in EnvelopeVariants(i)
              /\ messages_file = file
    /\ messages = messages_file
    /\ MainIdle
    /\ ConsumerIdle
    /\ GeneratorIdle
    /\ LoaderIdle
    /\ MongoIdle

\* send_envelope(messages[i]), the whole method: stamp, producer.send,
\* producer.flush; producer.send may raise after the stamping.
send_envelope ==
    /\ pc = "idle"
    /\ Len(sent) < MaxSends
    /\ \E i \in 1..Len(messages), now \in Times, ok \in BOOLEAN :
          LET envelope == Stamp(messages[i], now)
          IN /\ messages' = [messages EXCEPT ![i] = envelope]
             /\ IF ok
                THEN sent' = Append(sent, Record(envelope))
                     /\ flushed' = flushed + 1
                ELSE UNCHANGED <<sent, flushed>>
    /\ UNCHANGED <<srvVars, fixtVars, pc, step, idx, existing, rule_ids, error,
                   call, created, trace, closed, consVars, genVars, loadVars,
                   mongoVars>>

SpecPub == InitPub /\ [][send_envelope]_vars

\* ------------------------------- producer.py run again after it raised
\* Fixture files whose rules have names of their own.
DistinctNames(names) ==
    \A i, j \in 1..Len(names) : i # j => names[i] # names[j]

InitRerun ==
    /\ InitProvision
    /\ DistinctNames([i \in 1..Len(filtering_rules) |-> filtering_rules[i].name])
    /\ DistinctNames([i \in 1..Len(enrichment_rules) |-> enrichment_rules[i].name])
    /\ ConsumerIdle /\ GeneratorIdle /\ LoaderIdle /\ MongoIdle

\* The script raised; it is started again over the same fixtures, and this
\* time the server and the network are healthy.
Rerun ==
    /\ pc = "raised" /\ previous = None
    /\ previous' = Some([error |-> error[1], call |-> call, before |-> srvBefore,
                         clean |-> /\ \A n \in 1..Len(created) : created[n].clean
                                   /\ Clean(SubSeq(call.reqs, 1, Len(call.reqs) - 1))])
    /\ healthy' = TRUE
    /\ srvBefore' = srvRules
    /\ messages' = messages_file
    /\ pc' = AfterLoop("start")
    /\ step' = "lookup"
    /\ idx' = 1
    /\ existing' = None
    /\ rule_ids' = <<>>
    /\ error' = None
    /\ call' = NoCall
    /\ created' = <<>>
    /\ trace' = <<>>
    /\ sent' = <<>> /\ flushed' = 0 /\ closed' = FALSE
    /\ UNCHANGED <<srvVars, filtering_rules, enrichment_rules, dedup_config,
                   messages_file, generated, consVars, genVars, loadVars,
                   mongoVars>>

NextRerun ==
    \/ create_filtering_rule
    \/ create_enrichment_rule
    \/ update_deduplication_config
    \/ Sleep
    \/ Close
    \/ Rerun

SpecRerun == InitRerun /\ [][NextRerun]_vars

\* ------------------------- update_deduplication_config called on its own
\* Configurations a caller may pass: every key, one key, some keys and a key
\* the method does not know.
DedupConfigs ==
    { FullDedup,
      [on_redis_error |-> "deny"],
      [hash_algorithm |-> "sha1", fields_to_hash |-> <<"id", "source">>,
       window |-> "5"] }

InitDedup ==
    /\ messages_file = <<>> /\ messages = <<>>
    /\ MainIdle /\ ConsumerIdle /\ GeneratorIdle /\ LoaderIdle /\ MongoIdle

\* rule_manager.update_deduplication_config(config), the whole method.
configure_dedup ==
    /\ pc = "idle"
    /\ Len(trace) < MaxCalls
    /\ \E config \in DedupConfigs, status \in Outcomes :
          /\ dedup_config' = config
          /\ PutDedup(config, status)
          /\ trace' = Append(trace, IF Raises(status) THEN "raised" ELSE "dedup")
    /\ UNCHANGED <<srvRules, nextId, filtering_rules, enrichment_rules, srvBefore,
                   messages_file, generated, healthy, previous, messages, pc,
                   step, idx, existing, rule_ids, error, created, prodVars,
                   consVars, genVars, loadVars, mongoVars>>

SpecDedup == InitDedup /\ [][configure_dedup]_vars

\* ------------------------------------------------- generate_data.py
\* The values the field generators draw from, cut to two of each.
UserIds == {"user-1", "user-2"}
ProductIds == {"product-abc", "product-xyz"}
OrderIds == {"order-001", "order-002"}
GeneratedIds == {"payment-order-001", "payment-order-002"}
Tiers == {"basic", "premium"}               \* and "enterprise"
Categories == {"electronics", "clothing"}   \* and three more

\* generate_payment_message with the order's id as the envelope's id.
PaymentMessagesOrderId ==
    { [id |-> o, source |-> "payment-service",
       payload |-> [order_id |-> o, user_id |-> u]] :
        o \in OrderIds, u \in UserIds }

\* generate_payment_message: product_id under a coin flip (amount, currency,
\* status and created_at are left out of the payload).
PaymentMessages ==
    { [id |-> id, source |-> "payment-service", payload |-> payload] :
        id \in GeneratedIds,
        payload \in
            { [order_id |-> o, user_id |-> u] : o \in OrderIds, u \in UserIds }
            \cup { [order_id |-> o, user_id |-> u, product_id |-> p] :
                     o \in OrderIds, u \in UserIds, p \in ProductIds } }

\* The loop body of generate_mongodb_data that skips the first message.
CollectIdsSkipFirst(msgs, key) ==
    { msgs[i].payload[key] :
        i \in {j \in 2..Len(msgs) : key \in DOMAIN msgs[j].payload} }

\* generate_mongodb_data, lines 120-128 (and generate_redis_order_data, lines
\* 140-144): the set of the payloads' values of `key`, where present.
CollectIds(msgs, key) ==
    { msgs[i].payload[key] :
        i \in {j \in 1..Len(msgs) : key \in DOMAIN msgs[j].payload} }

\* The lists a comprehension over a set can build: one element each, any order.
Orderings(S) ==
    { f \in [1..Cardinality(S) -> S] :
        \A i, j \in 1..Cardinality(S) : i # j => f[i] # f[j] }

\* generate_user_data / generate_product_data: the record of an id, its other
\* fields random (name, email and price are left out).
UserRecords(uid) == { [_id |-> uid, tier |-> t] : t \in Tiers }
ProductRecords(pid) == { [_id |-> pid, category |-> c] : c \in Categories }

\* generate_messages(count), line 158 of main.
generate_messages ==
    /\ gpc = "start"
    /\ \E n \in 0..MaxCount :
          /\ count' = n
          /\ \E msgs \in [1..n -> PaymentMessages] : gmessages' = msgs
    /\ gpc' = "messages"
    /\ UNCHANGED <<mongodb_data, redis_data, mainVars, consVars, loadVars, mongoVars>>

\* generate_mongodb_data(messages), line 165 of main.
generate_mongodb_data ==
    /\ gpc = "messages"
    /\ \E uids \in Orderings(CollectIds(gmessages, "user_id")),
          pids \in Orderings(CollectIds(gmessages, "product_id")) :
          \E users \in [1..Len(uids) -> UNION {UserRecords(u) : u \in UserIds}],
             products \in [1..Len(pids) ->
                              UNION {ProductRecords(q) : q \in ProductIds}] :
              /\ \A i \in 1..Len(uids) : users[i] \in UserRecords(uids[i])
              /\ \A i \in 1..Len(pids) : products[i] \in ProductRecords(pids[i])
              /\ mongodb_data' = Some([users |-> users, products |-> products])
    /\ gpc' = "mongodb"
    /\ UNCHANGED <<gmessages, count, redis_data, mainVars, consVars, loadVars,
                   mongoVars>>

\* generate_order_data: the record of an order, its fields random
\* (shipping_method, shipping_cost and estimated_delivery_days are left out).
OrderRecords == { [discount_tier |-> d] : d \in {"standard", "gold"} }

Max(S) == CHOOSE m \in S : \A n \in S : n <= m

\* A key without the prefix of its kind.
RedisKeyBare(prefix, id) == id

\* f"user:{id}", f"product:{id}", f"order:{id}".
RedisKey(prefix, id) == prefix \o ":" \o id

\* main, lines 173-184: redis_data[key of the record] = its fields but _id, in
\* list order, a later record of a key replacing an earlier one.
KeyedBy(prefix, records, fields) ==
    [k \in {RedisKey(prefix, records[i]._id) : i \in 1..Len(records)} |->
        LET last == Max({i \in 1..Len(records) :
                            RedisKey(prefix, records[i]._id) = k})
        IN [f \in fields |-> records[last][f]]]

\* main, lines 171-186: the users, then the products, then
\* redis_data.update(generate_redis_order_data(messages)).
build_redis_data ==
    /\ gpc = "mongodb"
    /\ LET user_data == KeyedBy("user", mongodb_data[1].users, {"tier"})
           product_data == KeyedBy("product", mongodb_data[1].products,
                                   {"category"})
           order_keys == {RedisKey("order", o) : o \in CollectIds(gmessages, "order_id")}
       IN \E order_redis_data \in [order_keys -> OrderRecords] :
             redis_data' = Some(order_redis_data @@ product_data @@ user_data)
    /\ gpc' = "redis"
    /\ UNCHANGED <<gmessages, mongodb_data, count, mainVars, consVars, loadVars,
                   mongoVars>>

InitGen ==
    /\ gpc = "start" /\ gmessages = <<>> /\ mongodb_data = None
    /\ count = 0 /\ redis_data = None
    /\ messages_file = <<>> /\ messages = <<>>
    /\ MainIdle /\ ConsumerIdle /\ LoaderIdle /\ MongoIdle

NextGen == generate_messages \/ generate_mongodb_data \/ build_redis_data

SpecGen == InitGen /\ [][NextGen]_vars

\* --------------------------------------------------- load_redis.py
Absent == <<>>
\* json.dumps(value): the stored string, which is not the value.
Dumps(value) == <<"json", value>>
\* A string some other writer stored.
Foreign == <<"raw", "old">>

RedisKeys == <<"user:user-1", "product:product-abc", "order:order-001",
               "user:user-2">>
DatasetKeys == {RedisKeys[i] : i \in 1..MaxKeys}
StoreKeys == DatasetKeys \cup {"session:1"}
DatasetValues == {"v1", "v2"}

\* redis_data.json as json.load gives it: pairs in file order, each key once.
Datasets ==
    { d \in SeqsUpTo([key : DatasetKeys, value : DatasetValues], MaxKeys) :
        \A i, j \in 1..Len(d) : i # j => d[i].key # d[j].key }

\* SET key value NX: only when the key is absent.
SetIfAbsent(old, new) == IF old = Absent THEN new ELSE old

\* r.set(key, json.dumps(value)), line 27: an unconditional SET.
Set(old, new) == new

InitLoad ==
    /\ redis_file \in {None} \cup {Some(d) : d \in Datasets}
    /\ store \in [StoreKeys -> {Absent, Foreign, Dumps("v1")}]
    /\ store0 = store
    /\ lpc = "start" /\ li = 1 /\ sets = <<>> /\ loads = 0 /\ after1 = None
    /\ printed = <<>>
    /\ messages_file = <<>> /\ messages = <<>>
    /\ MainIdle /\ ConsumerIdle /\ GeneratorIdle /\ MongoIdle

Returned ==
    /\ lpc' = "done"
    /\ loads' = loads + 1
    /\ after1' = IF loads = 0 THEN Some(store) ELSE after1

\* load_redis_data without the guard on the file: open() raises.
LoadOpenUnguarded ==
    /\ lpc = "start"
    /\ sets' = <<>>
    /\ li' = 1
    /\ IF redis_file = None
       THEN lpc' = "raised" /\ UNCHANGED printed
       ELSE lpc' = "loading" /\ printed' = <<"Loading data into Redis">>
    /\ UNCHANGED <<redis_file, store, store0, loads, after1, mainVars, consVars,
                   genVars, mongoVars>>

\* load_redis_data, lines 9-23: the guard on the file, json.load, redis.Redis.
LoadOpen ==
    /\ lpc = "start"
    /\ sets' = <<>>
    /\ li' = 1
    /\ IF redis_file = None
       THEN /\ printed' = <<"Redis data file not found",
                            "Run generate_data.py first to generate data">>
            /\ Returned
       ELSE /\ printed' = <<"Loading data into Redis">>
            /\ lpc' = "loading"
            /\ UNCHANGED <<loads, after1>>
    /\ UNCHANGED <<redis_file, store, store0, mainVars, consVars, genVars, mongoVars>>

\* One turn of `for key, value in data.items()`: r.set, which may raise.
LoadSet ==
    /\ lpc = "loading" /\ li <= Len(redis_file[1])
    /\ \E ok \in BOOLEAN :
          LET pair == redis_file[1][li]
          IN IF ok
             THEN /\ store' = [store EXCEPT
                                 ![pair.key] = Set(@, Dumps(pair.value))]
                  /\ sets' = Append(sets, pair.key)
                  /\ li' = li + 1
                  /\ UNCHANGED lpc
             ELSE /\ lpc' = "raised"
                  /\ UNCHANGED <<store, sets, li>>
    /\ UNCHANGED <<redis_file, store0, loads, after1, printed, mainVars, consVars,
                   genVars, mongoVars>>

\* load_redis_data, lines 30-33: the loop is over, r.close(), return.
LoadClose ==
    /\ lpc = "loading" /\ li > Len(redis_file[1])
    /\ printed' = printed \o <<"Loaded keys into Redis",
                               "Redis data loaded successfully">>
    /\ Returned
    /\ UNCHANGED <<redis_file, store, store0, li, sets, mainVars, consVars, genVars, mongoVars>>

\* load_redis.py is run again on the same file.
LoadAgain ==
    /\ lpc \in {"done", "raised"} /\ loads < MaxLoads
    /\ lpc' = "start"
    /\ UNCHANGED <<redis_file, store, store0, li, sets, loads, after1, printed,
                   mainVars,
                   consVars, genVars, mongoVars>>

load_redis_data == LoadOpen \/ LoadSet \/ LoadClose

NextLoad == load_redis_data \/ LoadAgain

SpecRedis == InitLoad /\ [][NextLoad]_vars

\* ------------------------------------------------- load_mongodb.py
Collections == {"user_profiles", "products"}

MongoUserIds == <<"user-1", "user-2", "user-3", "user-4">>
FileUserIds == {MongoUserIds[i] : i \in 1..MaxDocs}

DistinctIds(docs) ==
    \A i, j \in 1..Len(docs) : i # j => docs[i]._id # docs[j]._id

\* mongodb_data.json as generate_data.py writes it: both keys, every _id once.
Bundles ==
    { [users |-> users, products |-> products] :
        users \in { u \in SeqsUpTo([_id : FileUserIds, tier : {"basic", "premium"}],
                                   MaxDocs) : DistinctIds(u) },
        products \in SeqsUpTo([_id : {"product-abc"},
                               category : {"electronics", "clothing"}], 1) }

\* The documents a collection may hold beforehand: older ones under the ids of
\* the file, and one under an id of its own.
OldUsers ==
    [i \in 1..(MaxDocs + 1) |->
        [_id |-> IF i = 1 THEN "user-9" ELSE MongoUserIds[i - 1], tier |-> "basic"]]
PriorUsers ==
    { SelectSeq(OldUsers, LAMBDA d : d._id \in ids) :
        ids \in SUBSET (FileUserIds \cup {"user-9"}) }
PriorProducts ==
    { <<[_id |-> "product-zzz", category |-> "books"]>>,
      <<[_id |-> "product-zzz", category |-> "books"],
        [_id |-> "product-abc", category |-> "electronics"]>> }

\* insert_one in place of the upsert.
ReplaceOneAlwaysInsert(docs, doc) == Append(docs, doc)

\* collection.replace_one({"_id": doc["_id"]}, doc, upsert=True): the first
\* document with that _id is replaced, and the document inserted if none has it.
ReplaceOne(docs, doc) ==
    LET hits == {i \in 1..Len(docs) : docs[i]._id = doc._id}
    IN IF hits = {} THEN Append(docs, doc)
       ELSE [docs EXCEPT ![Min(hits)] = doc]

InitMongo ==
    /\ mongodb_file \in {None} \cup {Some(b) : b \in Bundles}
    /\ \E users \in PriorUsers, products \in PriorProducts :
          coll = [user_profiles |-> users, products |-> products]
    /\ coll0 = coll
    /\ mpc = "start" /\ mi = 1 /\ writes = <<>> /\ mloads = 0 /\ mafter1 = None
    /\ mprinted = <<>>
    /\ messages_file = <<>> /\ messages = <<>>
    /\ MainIdle /\ ConsumerIdle /\ GeneratorIdle /\ LoaderIdle

MongoReturned ==
    /\ mpc' = "done"
    /\ mloads' = mloads + 1
    /\ mafter1' = IF mloads = 0 THEN Some(coll) ELSE mafter1

\* load_mongodb_data, lines 9-25: the guard on the file, json.load, MongoClient.
MongoOpen ==
    /\ mpc = "start"
    /\ writes' = <<>>
    /\ mi' = 1
    /\ IF mongodb_file = None
       THEN /\ mprinted' = <<"MongoDB data file not found",
                             "Run generate_data.py first to generate data">>
            /\ MongoReturned
       ELSE /\ mprinted' = <<"Loading data into MongoDB">>
            /\ mpc' = "users"
            /\ UNCHANGED <<mloads, mafter1>>
    /\ UNCHANGED <<mongodb_file, coll, coll0, mainVars, consVars, genVars, loadVars>>

\* The list the loop at mpc runs over, and the collection it writes.
Records(phase) ==
    IF phase = "users" THEN mongodb_file[1].users ELSE mongodb_file[1].products
Target(phase) == IF phase = "users" THEN "user_profiles" ELSE "products"

\* A loop that catches the error of one replace_one and takes the next record.
MongoReplaceContinue ==
    /\ mpc \in {"users", "products"} /\ mi <= Len(Records(mpc))
    /\ \E ok \in BOOLEAN :
          LET doc == Records(mpc)[mi]
          IN IF ok
             THEN /\ coll' = [coll EXCEPT ![Target(mpc)] = ReplaceOne(@, doc)]
                  /\ writes' = Append(writes, <<Target(mpc), doc._id>>)
                  /\ UNCHANGED mprinted
             ELSE /\ mprinted' = Append(mprinted, "Error loading MongoDB data")
                  /\ UNCHANGED <<coll, writes>>
    /\ mi' = mi + 1
    /\ UNCHANGED <<mpc, mongodb_file, coll0, mloads, mafter1, mainVars, consVars,
                   genVars, loadVars>>

\* One turn of the loop over data["users"] or data["products"]: replace_one,
\* which may raise; `except Exception` prints and the function returns.
MongoReplace ==
    /\ mpc \in {"users", "products"} /\ mi <= Len(Records(mpc))
    /\ \E ok \in BOOLEAN :
          LET doc == Records(mpc)[mi]
          IN IF ok
             THEN /\ coll' = [coll EXCEPT ![Target(mpc)] = ReplaceOne(@, doc)]
                  /\ writes' = Append(writes, <<Target(mpc), doc._id>>)
                  /\ mi' = mi + 1
                  /\ UNCHANGED <<mpc, mprinted>>
             ELSE /\ mpc' = "failed"
                  /\ mprinted' = Append(mprinted, "Error loading MongoDB data")
                  /\ UNCHANGED <<coll, writes, mi>>
    /\ UNCHANGED <<mongodb_file, coll0, mloads, mafter1, mainVars, consVars,
                   genVars, loadVars>>

\* The loop over data["users"] is over (or skipped): on to data["products"].
MongoProducts ==
    /\ mpc = "users" /\ mi > Len(Records("users"))
    /\ mpc' = "products"
    /\ mi' = 1
    /\ mprinted' = IF Records("users") = <<>> THEN mprinted
                   ELSE Append(mprinted, "Loaded users")
    /\ UNCHANGED <<mongodb_file, coll, coll0, writes, mloads, mafter1, mainVars,
                   consVars, genVars, loadVars>>

\* load_mongodb_data, lines 37-40: client.close() and the return.
MongoClose ==
    /\ mpc = "products" /\ mi > Len(Records("products"))
    /\ mprinted' = (IF Records("products") = <<>> THEN mprinted
                    ELSE Append(mprinted, "Loaded products"))
                   \o <<"MongoDB data loaded successfully">>
    /\ MongoReturned
    /\ UNCHANGED <<mongodb_file, coll, coll0, mi, writes, mainVars, consVars,
                   genVars, loadVars>>

\* load_mongodb.py is run again on the same file.
MongoAgain ==
    /\ mpc \in {"done", "failed"} /\ mloads < MaxLoads
    /\ mpc' = "start"
    /\ UNCHANGED <<mongodb_file, coll, coll0, mi, writes, mloads, mafter1,
                   mprinted, mainVars, consVars, genVars, loadVars>>

load_mongodb_data == MongoOpen \/ MongoReplace \/ MongoProducts \/ MongoClose

NextMongo == load_mongodb_data \/ MongoAgain

SpecMongo == InitMongo /\ [][NextMongo]_vars

\* ------------------------------------ the scripts, one of them at a time
InitSteps ==
    \/ InitLoad
    \/ InitMongo
    \/ InitPublish /\ ConsumerIdle /\ GeneratorIdle /\ LoaderIdle /\ MongoIdle

NextSteps == main \/ NextLoad \/ NextMongo

SpecSteps == InitSteps /\ [][NextSteps]_vars

\* ================================================================ claims
\* Where main is, or was when it raised.
At == IF pc = "raised" THEN error[1].at ELSE pc

\* No create of `kind` is past its lookup: the rules of that kind are as the
\* last returned create left them.
Settled(kind) == At = kind => step = "lookup"

NameOf(entry) == Fixtures(entry.kind)[entry.index].name

\* created[n-1] and created[n] are create(name, specA) then create(name, specB)
\* of one kind, from a server with no rule of that name, every call succeeding.
RecreatedPair(n) ==
    /\ created[n - 1].kind = created[n].kind
    /\ NameOf(created[n - 1]) = NameOf(created[n])
    /\ created[n - 1].pre = 0
    /\ created[n - 1].clean /\ created[n].clean
    /\ \A m \in (n + 1)..Len(created) : created[m].kind # created[n].kind
    /\ Settled(created[n].kind)

\* The server's rule carries the attributes of the fixture rule.
CarriesSpec(kind, body, fixture) ==
    /\ body.name = fixture.name
    /\ IF kind = "filtering"
       THEN /\ body.expression = fixture.expression
            /\ body.priority = fixture.priority
            /\ body.enabled = TRUE
       ELSE /\ body.field_to_enrich = fixture.field_to_enrich
            /\ body.source_type = fixture.source_type
            /\ body.source_config = fixture.source_config

\* C2: create(name, specA) then create(name, specB), from a server with no rule
\* named name and with every HTTP call succeeding, leaves exactly one rule named
\* name, carrying specB's attributes, under an id other than the first call's.
C2_IdempotentProvisioning ==
    \A n \in 2..Len(created) :
        RecreatedPair(n) =>
            LET kind == created[n].kind
                fixture == Fixtures(kind)[created[n].index]
                rules == srvRules[kind]
                named == {i \in 1..Len(rules) : rules[i].body.name = fixture.name}
            IN /\ Cardinality(named) = 1
               /\ \A i \in named : /\ rules[i].id = created[n].id
                                   /\ CarriesSpec(kind, rules[i].body, fixture)
               /\ created[n].id # created[n - 1].id

\* A rule of each kind was created twice in a row under one name.
C2_Witness ==
    /\ \E n \in 2..Len(created) :
          RecreatedPair(n) /\ created[n].kind = "filtering"
    /\ \E n \in 2..Len(created) :
          RecreatedPair(n) /\ created[n].kind = "enrichment"

\* Every create call of main has returned.
ProvisioningComplete == pc \in {"sleep", "publish", "close", "done"}

\* C3 as claimed: after a provisioning run that completes the server holds at
\* most one rule per kind and name, whatever it held before.
C3_AtMostOnePerName ==
    ProvisioningComplete =>
        \A kind \in Kinds, name \in Names : CountNamed(srvRules[kind], name) <= 1

\* C3 amended: after a provisioning run that completes, every lookup and delete
\* of which was answered 2xx (the lookup with the list of rules), the server
\* holds at most one rule of a kind and name of which it held at most one
\* before the run.
C3_AtMostOnePerNameCleanRun ==
    (ProvisioningComplete /\ \A n \in 1..Len(created) : created[n].clean) =>
        \A kind \in Kinds, name \in Names :
            CountNamed(srvBefore[kind], name) <= 1 =>
                CountNamed(srvRules[kind], name) <= 1

\* A completed clean run replaced a rule the server held and created one name twice.
C3_Witness ==
    /\ ProvisioningComplete
    /\ \A n \in 1..Len(created) : created[n].clean
    /\ \E n \in 1..Len(created) : created[n].pre = 1
    /\ \E n \in 2..Len(created) :
          /\ created[n].kind = created[n - 1].kind
          /\ NameOf(created[n]) = NameOf(created[n - 1])
    /\ \E kind \in Kinds, name \in Names :
          CountNamed(srvBefore[kind], name) = 1 /\ CountNamed(srvRules[kind], name) = 1

\* The lookup of the current create failed or was answered with no list.
LookupFailed ==
    /\ call.op = "create"
    /\ ~(call.reqs[1].status = StatusOk /\ call.reqs[1].isList)

C5_NonOkRaises ==
    \A i \in 1..Len(call.reqs) :
        (/\ call.reqs[i].method \in {"DELETE", "POST", "PUT"}
         /\ call.reqs[i].status \in Statuses \ {StatusOk}) =>
            /\ i = Len(call.reqs)
            /\ pc = "raised"
            /\ call.reqs[i].method = "DELETE" => srvRules = call.before

\* C7: the records handed to the broker are the loaded messages, in list order,
\* each keyed by its own id, and a send begins only when every earlier flush
\* has returned.
C7_PublishedInOrder ==
    /\ Len(sent) <= Len(messages_file)
    /\ \A i \in 1..Len(sent) :
          /\ sent[i].key = Some(messages_file[i].id)
          /\ \A k \in DOMAIN messages_file[i] :
                sent[i].value[k] = messages_file[i][k]
    /\ flushed <= Len(sent) /\ Len(sent) <= flushed + 1
    /\ (pc = "publish" /\ step = "send") => flushed = Len(sent)
    /\ pc \in {"close", "done"} =>
          Len(sent) = Len(messages_file) /\ flushed = Len(sent)

\* A run published two envelopes or more and finished.
C7_Witness == pc = "done" /\ Len(sent) >= 2 /\ Len(sent) = Len(messages_file)

\* What main has done when the propagation wait is over.
ProvisioningTrace ==
    [i \in 1..(Len(filtering_rules) + Len(enrichment_rules) + 2) |->
        IF i <= Len(filtering_rules) THEN "filtering"
        ELSE IF i <= Len(filtering_rules) + Len(enrichment_rules) THEN "enrichment"
        ELSE IF i = Len(filtering_rules) + Len(enrichment_rules) + 1 THEN "dedup"
        ELSE "sleep"]

\* C8: an envelope is sent only after every filtering create, then every
\* enrichment create, then the deduplication update returned and the wait
\* elapsed; a run that raised before then has sent none.
C8_ProvisionBeforePublish ==
    /\ sent # <<>> =>
          /\ Len(trace) >= Len(ProvisioningTrace)
          /\ SubSeq(trace, 1, Len(ProvisioningTrace)) = ProvisioningTrace
          /\ Len(created) = Len(filtering_rules) + Len(enrichment_rules)
    /\ (pc = "raised" /\ error[1].at \in {"filtering", "enrichment", "dedup", "sleep"})
          => sent = <<>>

\* An envelope was sent after a rule of each kind was created.
C8_Witness ==
    /\ sent # <<>>
    /\ \E n \in 1..Len(created) : created[n].kind = "filtering"
    /\ \E n \in 1..Len(created) : created[n].kind = "enrichment"

\* C9 as claimed: an interrupt while the publisher sends or while the consumer
\* consumes leads to the process's broker connection being closed before exit.
C9_ClosedOnInterrupt ==
    /\ (/\ pc = "raised"
        /\ error[1].exc = "KeyboardInterrupt"
        /\ error[1].at = "publish") => closed
    /\ (cpc \in {"returned", "raised"} /\ cinterrupted) => cclosed

\* The envelope of messages.json that was sent as `value`.
Original(value) ==
    messages_file[CHOOSE i \in 1..Len(messages_file) :
                      messages_file[i].id = value.id]

\* C6: what send_envelope sends has a timestamp and a metadata, the metadata {}
\* when the envelope had none; a timestamp or metadata the envelope had, and
\* its id, source and payload, are sent unchanged; every publication of one
\* envelope sends the same value, stamped once.
C6_EnvelopeStamping ==
    /\ \A j \in 1..Len(sent) :
          LET value == sent[j].value
              original == Original(value)
          IN /\ DOMAIN value = DOMAIN original \cup {"timestamp", "metadata"}
             /\ \A k \in DOMAIN original : value[k] = original[k]
             /\ "metadata" \notin DOMAIN original => value["metadata"] = EmptyObj
             /\ \A j2 \in 1..Len(sent) :
                   sent[j2].value.id = value.id => sent[j2].value = value
    /\ \A i \in 1..Len(messages) :
          \A k \in DOMAIN messages_file[i] : messages[i][k] = messages_file[i][k]

\* An envelope without timestamp and metadata was published twice, and one
\* that had a timestamp once.
C6_Witness ==
    /\ \E j1, j2 \in 1..Len(sent) :
          /\ j1 < j2
          /\ sent[j1].value.id = sent[j2].value.id
          /\ DOMAIN Original(sent[j1].value) = {"id", "source", "payload"}
    /\ \E j \in 1..Len(sent) : "timestamp" \in DOMAIN Original(sent[j].value)

Ids(records) == {records[i]._id : i \in 1..Len(records)}
Distinct(records) ==
    \A i, j \in 1..Len(records) : i # j => records[i]._id # records[j]._id

\* C1: the bundle generate_mongodb_data returns has as users' _ids the distinct
\* payload.user_id values of the events, as products' _ids the distinct
\* payload.product_id values of the events that carry one, each in one record.
C1_ClosureInvariant ==
    mongodb_data # None =>
        LET users == mongodb_data[1].users
            products == mongodb_data[1].products
        IN /\ Ids(users) = {gmessages[i].payload.user_id : i \in 1..Len(gmessages)}
           /\ Ids(products) =
                 {gmessages[i].payload.product_id :
                     i \in {j \in 1..Len(gmessages) :
                              "product_id" \in DOMAIN gmessages[j].payload}}
           /\ Distinct(users) /\ Distinct(products)

\* Two events share a user, one carries no product: one user, one product.
C1_Witness ==
    /\ mongodb_data # None
    /\ Len(gmessages) = 2
    /\ gmessages[1].payload.user_id = gmessages[2].payload.user_id
    /\ "product_id" \notin DOMAIN gmessages[1].payload
    /\ Len(mongodb_data[1].users) = 1
    /\ Len(mongodb_data[1].products) = 1

\* The last run of load_redis_data read the file and returned.
Loaded == lpc = "done" /\ redis_file # None

\* C10: a run of load_redis_data that returns has issued one set per dataset
\* key, whatever the store held; it leaves each dataset key at the JSON of its
\* value and every other key as it was; a second run leaves the store as the
\* first did.
C10_LoadIdempotent ==
    Loaded =>
        LET data == redis_file[1]
        IN /\ Len(sets) = Len(data)
           /\ \A i \in 1..Len(data) :
                 sets[i] = data[i].key /\ store[data[i].key] = Dumps(data[i].value)
           /\ \A k \in StoreKeys :
                 (\A i \in 1..Len(data) : data[i].key # k) => store[k] = store0[k]
           /\ loads >= 2 => store = after1[1]

\* A second run returned, over a store that held other values for the keys.
C10_Witness ==
    /\ Loaded /\ loads = 2
    /\ Len(redis_file[1]) = 2
    /\ \E i \in 1..2 : store0[redis_file[1][i].key] = Foreign
    /\ \E i \in 1..2 : store0[redis_file[1][i].key] = Absent
    /\ store0["session:1"] = Foreign

\* The documents of a collection under an _id.
DocsWithId(docs, id) == {i \in 1..Len(docs) : docs[i]._id = id}

\* The collection holds the records of the file, one document each, and the
\* other documents it held before.
Upserted(docs, before, records) ==
    /\ \A r \in 1..Len(records) :
          /\ Cardinality(DocsWithId(docs, records[r]._id)) = 1
          /\ \A i \in DocsWithId(docs, records[r]._id) : docs[i] = records[r]
    /\ \A b \in 1..Len(before) :
          DocsWithId(records, before[b]._id) = {} =>
              /\ Cardinality(DocsWithId(docs, before[b]._id)) = 1
              /\ \A i \in DocsWithId(docs, before[b]._id) : docs[i] = before[b]
    /\ \A i \in 1..Len(docs) :
          DocsWithId(records, docs[i]._id) # {} \/ DocsWithId(before, docs[i]._id) # {}

\* C11: after load_mongodb_data completes without a store error each record of
\* the file is the one document of its _id in its collection, the documents of
\* other _ids are as they were, and a second load leaves the collections as the
\* first did.
C11_UpsertByKey ==
    (mpc = "done" /\ mongodb_file # None) =>
        /\ Upserted(coll.user_profiles, coll0.user_profiles, mongodb_file[1].users)
        /\ Upserted(coll.products, coll0.products, mongodb_file[1].products)
        /\ mloads >= 2 => coll = mafter1[1]

\* A second load returned; the first replaced a document, inserted another and
\* left a third alone.
C11_Witness ==
    /\ mpc = "done" /\ mongodb_file # None /\ mloads = 2
    /\ Len(mongodb_file[1].users) = 2 /\ Len(mongodb_file[1].products) = 1
    /\ \E r \in 1..2 : /\ DocsWithId(coll0.user_profiles, mongodb_file[1].users[r]._id) # {}
                       /\ mongodb_file[1].users[r].tier = "premium"
    /\ \E r \in 1..2 : DocsWithId(coll0.user_profiles, mongodb_file[1].users[r]._id) = {}
    /\ DocsWithId(coll0.user_profiles, "user-9") # {}
    /\ DocsWithId(coll0.products, "product-abc") # {}

\* load_redis_data found no file: it wrote nothing and returned after the report.
RedisStepSkipped ==
    (redis_file = None /\ lpc \notin {"idle", "start"}) =>
        /\ lpc = "done"
        /\ store = store0 /\ sets = <<>>
        /\ printed = <<"Redis data file not found",
                       "Run generate_data.py first to generate data">>

\* load_mongodb_data found no file: it wrote nothing and returned after the report.
MongoStepSkipped ==
    (mongodb_file = None /\ mpc \notin {"idle", "start"}) =>
        /\ mpc = "done"
        /\ coll = coll0 /\ writes = <<>>
        /\ mprinted = <<"MongoDB data file not found",
                        "Run generate_data.py first to generate data">>

\* C12 as claimed: a load step whose generated file is absent writes nothing,
\* raises nothing and returns after the report; the loaders and the
\* provisioning script's load of messages.json alike.
C12_MissingFileNoWrite ==
    /\ RedisStepSkipped
    /\ MongoStepSkipped
    /\ (~generated /\ pc # "idle") =>
          srvRules = srvBefore /\ srvDedup = OldDedup /\ sent = <<>>

\* C12 amended: each loader whose generated file is absent writes nothing,
\* raises nothing and returns after the report; the provisioning script
\* without generated/messages.json goes on with fixtures/messages.json and
\* publishes it.
C12_MissingFileLoaders ==
    /\ RedisStepSkipped
    /\ MongoStepSkipped
    /\ (~generated /\ pc = "done") =>
          /\ Len(sent) = Len(messages_file)
          /\ \A i \in 1..Len(sent) : sent[i].value.id = messages_file[i].id

\* load_redis_data returned from a missing file, over a store that held values.
C12_Witness ==
    /\ redis_file = None /\ lpc = "done" /\ loads = 1
    /\ \E k \in StoreKeys : store0[k] = Foreign

\* The values of payload[key] over the generated events that carry it.
EventIds(key) ==
    {gmessages[i].payload[key] :
        i \in {j \in 1..Len(gmessages) : key \in DOMAIN gmessages[j].payload}}

\* C13: the keys of the key-value bundle are user:<u>, product:<p> and
\* order:<o> for the distinct user_id, product_id and order_id values of the
\* generated events, one key per identifier, each holding a record of its kind.
C13_RedisKeySet ==
    redis_data # None =>
        LET data == redis_data[1]
        IN /\ DOMAIN data = {"user:" \o u : u \in EventIds("user_id")}
                            \cup {"product:" \o q : q \in EventIds("product_id")}
                            \cup {"order:" \o o : o \in EventIds("order_id")}
           /\ Cardinality(DOMAIN data)
                 = Cardinality(EventIds("user_id"))
                   + Cardinality(EventIds("product_id"))
                   + Cardinality(EventIds("order_id"))
           /\ \A u \in EventIds("user_id") : DOMAIN data["user:" \o u] = {"tier"}
           /\ \A q \in EventIds("product_id") :
                 DOMAIN data["product:" \o q] = {"category"}
           /\ \A o \in EventIds("order_id") :
                 DOMAIN data["order:" \o o] = {"discount_tier"}

\* Two events of one user and two orders, one with a product: four keys.
C13_Witness ==
    /\ redis_data # None
    /\ Len(gmessages) = 2
    /\ Cardinality(EventIds("user_id")) = 1
    /\ Cardinality(EventIds("order_id")) = 2
    /\ Cardinality(EventIds("product_id")) = 1
    /\ Cardinality(DOMAIN redis_data[1]) = 4

\* C15 as claimed: the envelopes generate_messages returns have pairwise
\* distinct ids.
C15_UniqueIds ==
    \A i, j \in 1..Len(gmessages) : i # j => gmessages[i].id # gmessages[j].id

\* C15 amended: generate_messages(count) returns count envelopes of source
\* payment-service, each with an id of generate_message_id's id space; two of
\* them may share an id.
C15_IdsFromIdSpace ==
    gpc \notin {"start", "idle"} =>
        /\ Len(gmessages) = count
        /\ \A i \in 1..Len(gmessages) :
              /\ gmessages[i].id \in GeneratedIds
              /\ gmessages[i].source = "payment-service"
              /\ {"order_id", "user_id"} \subseteq DOMAIN gmessages[i].payload

\* Two envelopes of different payloads were generated under one id.
C15_Witness ==
    /\ gpc = "messages" /\ count = 2
    /\ gmessages[1].id = gmessages[2].id
    /\ gmessages[1].payload # gmessages[2].payload

DedupKeys == {"hash_algorithm", "ttl_seconds", "on_redis_error", "fields_to_hash"}

\* C14: update_deduplication_config issues one PUT and nothing else; its body
\* has the four keys, a key the config lacks sent as null ([] for
\* fields_to_hash); after a call answered 2xx the server's configuration is
\* that body, with nothing of the earlier one.
C14_FullReplace ==
    call.op = "update_deduplication_config" =>
        /\ Len(call.reqs) = 1
        /\ call.reqs[1].method = "PUT"
        /\ LET body == call.reqs[1].target
           IN /\ DOMAIN body = DedupKeys
              /\ \A k \in DedupKeys :
                    body[k] = IF k \in DOMAIN dedup_config THEN dedup_config[k]
                              ELSE IF k = "fields_to_hash" THEN <<>> ELSE Null
              /\ call.reqs[1].status = StatusOk => srvDedup = body

\* Two calls succeeded, the second with a configuration of one key.
C14_Witness ==
    /\ trace = <<"dedup", "dedup">>
    /\ call.reqs[1].status = StatusOk
    /\ DOMAIN dedup_config = {"on_redis_error"}
    /\ srvDedup.hash_algorithm = Null

\* The current create runs against a server holding one rule of its name, and
\* its lookup was answered with the list.
ReplacingOne ==
    /\ call.op = "create"
    /\ call.reqs[1].status = StatusOk /\ call.reqs[1].isList
    /\ CountNamed(call.before[call.kind], call.name) = 1

\* C16 as claimed: when create(name, ...) runs against a server holding one
\* rule named name and the lookup succeeds, a reader between the DELETE and the
\* POST sees no rule of that name, and at no point of the operation two.
C16_AbsentBetweenDeleteAndPost ==
    ReplacingOne =>
        /\ CountNamed(srvRules[call.kind], call.name) <= 1
        /\ (pc = call.kind /\ step = "post") =>
              CountNamed(srvRules[call.kind], call.name) = 0

\* The run before this one was aborted by a failed DELETE, POST or PUT.
AbortedByMutation ==
    /\ previous # None
    /\ previous[1].error.exc \in {"RequestException", "KeyError"}
    /\ previous[1].call.reqs # <<>>
    /\ previous[1].call.reqs[Len(previous[1].call.reqs)].method
          \in {"DELETE", "POST", "PUT"}

\* The server holds one rule per fixture name, carrying the fixture's
\* attributes, and the fixture's deduplication configuration.
Provisioned ==
    /\ \A kind \in Kinds :
          \A i \in 1..Len(Fixtures(kind)) :
              LET fixture == Fixtures(kind)[i]
                  named == {r \in 1..Len(srvRules[kind]) :
                               srvRules[kind][r].body.name = fixture.name}
              IN /\ Cardinality(named) = 1
                 /\ \A r \in named : CarriesSpec(kind, srvRules[kind][r].body, fixture)
    /\ \A k \in DOMAIN dedup_config : srvDedup[k] = dedup_config[k]

\* C17 as claimed: after a run aborted by a rule-mutation failure, a following
\* run over the same fixtures in which every call succeeds ends with one rule
\* per fixture name, carrying the fixture's attributes, and the fixture's
\* deduplication configuration.
C17_Rerunnable ==
    (AbortedByMutation /\ ProvisioningComplete) => Provisioned

\* C17 amended: so it is when the server holds at most one rule per kind and
\* name at the moment the following run starts.
C17_RerunnableFromAtMostOne ==
    (/\ AbortedByMutation /\ ProvisioningComplete
     /\ \A kind \in Kinds, name \in Names :
           CountNamed(srvBefore[kind], name) <= 1)
        => Provisioned

\* The first run deleted a rule and failed at the POST, leaving the name
\* absent; the second run completed over fixtures of both kinds.
C17_Witness ==
    /\ AbortedByMutation /\ ProvisioningComplete /\ previous[1].clean
    /\ LET last == previous[1].call
       IN /\ Len(last.reqs) = 3
          /\ last.reqs[2].method = "DELETE" /\ last.reqs[2].status = StatusOk
          /\ last.reqs[3].status = StatusServerError
          /\ CountNamed(previous[1].before[last.kind], last.name) = 1
    /\ filtering_rules # <<>> /\ enrichment_rules # <<>>
    /\ Provisioned

\* What the broker has been handed is the list's envelopes in order, up to the
\* one main is at; a send or flush that failed left main raised at that
\* envelope.
HandedInOrder ==
    /\ Len(sent) <= Len(messages)
    /\ \A i \in 1..Len(sent) : sent[i] = Record(messages[i])
    /\ pc = "publish" => Len(sent) = (IF step = "send" THEN idx - 1 ELSE idx)
    /\ (pc = "raised" /\ error[1].exc = "KafkaError") =>
          /\ Len(sent) \in {idx - 1, idx}
          /\ flushed = idx - 1

\* C18: each envelope of the list is handed to the broker at most once, in
\* list order; when a send or a flush fails main ends raised, and nothing is
\* handed to the broker afterwards.
C18_NoRetry ==
    /\ []HandedInOrder
    /\ [][pc = "raised" => (pc' = "raised" /\ sent' = sent)]_vars

\* The flush of the first of two envelopes failed: one record handed over, the
\* second envelope never sent.
C18_Witness ==
    /\ pc = "raised" /\ error[1].exc = "KafkaError"
    /\ Len(messages) = 2 /\ idx = 1 /\ Len(sent) = 1

\* The writes load_mongodb_data makes when nothing fails, in order.
AllWrites ==
    [i \in 1..Len(mongodb_file[1].users) |->
        <<"user_profiles", mongodb_file[1].users[i]._id>>]
    \o [i \in 1..Len(mongodb_file[1].products) |->
        <<"products", mongodb_file[1].products[i]._id>>]

\* The record of the file a write stored.
Written(w) ==
    LET list == IF w[1] = "user_profiles" THEN mongodb_file[1].users
                ELSE mongodb_file[1].products
    IN CHOOSE doc \in {list[i] : i \in 1..Len(list)} : doc._id = w[2]

\* load_redis_data stopped at pair li: the pairs before it are stored.
RedisStoppedAtFailure ==
    lpc = "raised" =>
        /\ li <= Len(redis_file[1])
        /\ sets = [i \in 1..(li - 1) |-> redis_file[1][i].key]
        /\ \A i \in 1..(li - 1) :
              store[redis_file[1][i].key] = Dumps(redis_file[1][i].value)

\* load_mongodb_data stopped at a record: the records before it are stored,
\* and an error is printed only by a step that stopped.
MongoStoppedAtFailure ==
    /\ mpc = "failed" =>
          /\ Len(writes) < Len(AllWrites)
          /\ writes = SubSeq(AllWrites, 1, Len(writes))
          /\ \A i \in 1..Len(writes) :
                \E d \in 1..Len(coll[writes[i][1]]) :
                    coll[writes[i][1]][d] = Written(writes[i])
    /\ (\E i \in 1..Len(mprinted) : mprinted[i] = "Error loading MongoDB data")
          => mpc \in {"failed", "start"}

\* C19: a store write that fails stops the load step at that record: the
\* records before it stay written, the failing write and the later ones are
\* not made, and the stopped step writes nothing more.
C19_StoreErrorStopsStep ==
    /\ [](RedisStoppedAtFailure /\ MongoStoppedAtFailure)
    /\ [][/\ (lpc' = "raised" \/ lpc = "raised") => (store' = store /\ sets' = sets)
          /\ (mpc' = "failed" \/ mpc = "failed") => (coll' = coll /\ writes' = writes)
         ]_vars

\* load_mongodb_data failed after its first write, with records left.
C19_Witness ==
    /\ mpc = "failed"
    /\ Len(writes) = 1 /\ Len(AllWrites) > 2
    /\ \E i \in 2..Len(AllWrites) :
          \A d \in 1..Len(coll[AllWrites[i][1]]) :
              coll[AllWrites[i][1]][d] # Written(AllWrites[i])

Other(kind) == IF kind = "filtering" THEN "enrichment" ELSE "filtering"

\* The DELETE requests of the call under way, and the ids the call took off
\* the list of its kind.
Deletes == SelectSeq(call.reqs, LAMBDA r : r.method = "DELETE")
RemovedIds ==
    {call.before[call.kind][i].id : i \in 1..Len(call.before[call.kind])}
    \ {srvRules[call.kind][i].id : i \in 1..Len(srvRules[call.kind])}

\* A create call leaves the other kind's rules as they were, sends at most
\* one DELETE, addressed to the first rule of its own kind's list with the
\* name, and takes no other rule off that list.
OneKindOneDelete ==
    call.op = "create" =>
        /\ srvRules[Other(call.kind)] = call.before[Other(call.kind)]
        /\ Len(Deletes) <= 1
        /\ \A d \in 1..Len(Deletes) :
              LET first == GetRuleByName(call.before[call.kind], call.name)
              IN first # None /\ Deletes[d].target = first[1].id
        /\ RemovedIds \subseteq {Deletes[d].target : d \in 1..Len(Deletes)}

\* C20: create_filtering_rule changes only the filtering rules and
\* create_enrichment_rule only the enrichment rules, also under equal names;
\* each create deletes at most one rule, the first of its list with the name.
C20_KindsIndependent ==
    /\ []OneKindOneDelete
    /\ [][/\ create_filtering_rule => srvRules'.enrichment = srvRules.enrichment
          /\ create_enrichment_rule => srvRules'.filtering = srvRules.filtering
         ]_vars

\* An enrichment rule was replaced while the filtering list holds a rule of
\* the same name and id, and the enrichment list held that name twice.
C20_Witness ==
    /\ call.op = "create" /\ call.kind = "enrichment" /\ call.returned
    /\ Len(Deletes) = 1 /\ Deletes[1].status = StatusOk
    /\ CountNamed(call.before.enrichment, call.name) = 2
    /\ CountNamed(srvRules.enrichment, call.name) = 2
    /\ \E i \in 1..Len(srvRules.filtering) :
          /\ srvRules.filtering[i].id = Deletes[1].target
          /\ srvRules.filtering[i].body.name = call.name

====
